---- MODULE Spec2Model ----
\* DizzySync: the catalog walk (client.rs, get_user_albums) and the
\* synchronisation pipeline (downloader.rs, sync_all_albums, download_album,
\* download_format) with the client calls they make (get_album_details,
\* get_download_links, download_file, download_from_cdn).
\*
\* Strings are sequences of one-character strings.  The three CJK characters
\* of the date notation are written "Y" (nian), "M" (yue) and "D" (ri).
\* The HTTP transport (reqwest) is the environment: every send() either fails
\* or yields one response, chosen nondeterministically.
EXTENDS Integers, Sequences, FiniteSets, TLC

VARIABLES
    config,          \* Downloader.config (fixed after construction)
    albums,          \* the Vec<Album> handed to sync_all_albums
    album,           \* sync_all_albums: the element borrowed by the loop (&mut Album)
    rootDir,         \* whether config.paths.output_dir exists
    dirs,            \* item directories existing under the output root
    sidecars,        \* sidecar files written into album_dir for the current item
    written,         \* files written into album_dir by the current download_format call
    pc,              \* position of the single worker
    idx,             \* sync_all_albums: index of the current item (1-based)
    fmtIdx,          \* download_album: index into config.download.formats
    album_dir,       \* download_album: local album_dir
    document,        \* get_download_links: local parsed detail page
    download_links,  \* download_format: local download_links
    resp,            \* download_file: local response
    cdn_resp,        \* download_from_cdn: local response
    file_data,       \* download_format: local file_data
    fmtResult,       \* result of the download_format call that ended last, current item
    outcome,         \* how the download_album call in progress / last ended came out
    itemlog,         \* download_album's own calls for the current item, in order
    fmtlog,          \* the calls of the current download_format call, in order
    attempted,       \* formats for which download_format was called, current item
    trace,           \* run-level events: item start, item end, sleep
    prior,           \* how each earlier run of the program over this output root ended
    wpc,             \* get_user_albums: position
    offset,          \* get_user_albums: local offset
    all_albums,      \* get_user_albums: local all_albums
    wreqs,           \* get_user_albums: offsets of the page requests issued
    wpages,          \* get_user_albums: pages decoded so far (server's answers)
    wret,            \* get_user_albums: returned value
    call             \* one function called on its own: its argument and result

vars == <<config, albums, album, rootDir, dirs, sidecars, written, pc, idx, fmtIdx,
          album_dir, document, download_links, resp, cdn_resp, file_data,
          fmtResult, outcome, itemlog, fmtlog, attempted, trace, prior,
          wpc, offset, all_albums, wreqs, wpages, wret, call>>

walkVars == <<wpc, offset, all_albums, wreqs, wpages, wret>>

\* ---------------------------------------------------------------- bounds

MaxAlbums == 2
MaxAnchors == 2
MaxPages == 3
MaxPreDirs == 1
MaxDiscs == 2
MaxBufLen == 9
MaxMembers == 2
MaxRuns == 2

\* ------------------------------------------------------------- constants

LIMIT == 20
PacingSecs == 2

\* Option<T>: None is the empty sequence, Some(x) the one-element sequence <<x>>
None == <<>>

Some(x) == <<x>>

\* ---------------------------------------------------------------- strings

Digits == {"0", "1", "2", "3", "4", "5", "6", "7", "8", "9"}

DigitSeq == <<"0", "1", "2", "3", "4", "5", "6", "7", "8", "9">>

DigitVal(c) ==
    CASE c = "0" -> 0 [] c = "1" -> 1 [] c = "2" -> 2 [] c = "3" -> 3
      [] c = "4" -> 4 [] c = "5" -> 5 [] c = "6" -> 6 [] c = "7" -> 7
      [] c = "8" -> 8 [] c = "9" -> 9

Reserved == {"<", ">", ":", "\"", "/", "\\", "|", "?", "*"}

RECURSIVE TrimStart(_)
TrimStart(s) ==
    IF s # <<>> /\ s[1] = " " THEN TrimStart(Tail(s)) ELSE s

RECURSIVE TrimEnd(_)
TrimEnd(s) ==
    IF s # <<>> /\ s[Len(s)] = " " THEN TrimEnd(SubSeq(s, 1, Len(s) - 1)) ELSE s

Trim(s) == TrimEnd(TrimStart(s))

\* str::replace: every non-overlapping occurrence of pat, left to right.
RECURSIVE Replace(_, _, _)
Replace(s, pat, rep) ==
    IF Len(s) < Len(pat) THEN s
    ELSE IF SubSeq(s, 1, Len(pat)) = pat
         THEN rep \o Replace(SubSeq(s, Len(pat) + 1, Len(s)), pat, rep)
         ELSE <<s[1]>> \o Replace(Tail(s), pat, rep)

sanitize_filename(name) ==
    Trim([i \in 1..Len(name) |-> IF name[i] \in Reserved THEN "_" ELSE name[i]])

\* The regex (\d{4})Y(\d{1,2})M(\d{1,2})D tried at position p of s: the
\* lengths <<month digits, day digits>> of the match, or <<>>.
DateMatchAt(s, p) ==
    LET dig(q) == q <= Len(s) /\ s[q] \in Digits
        is(q, c) == q <= Len(s) /\ s[q] = c
        ml == IF dig(p + 5) /\ dig(p + 6) /\ is(p + 7, "M") THEN 2
              ELSE IF dig(p + 5) /\ is(p + 6, "M") THEN 1 ELSE 0
        ds == p + 5 + ml + 1
        dl == IF dig(ds) /\ dig(ds + 1) /\ is(ds + 2, "D") THEN 2
              ELSE IF dig(ds) /\ is(ds + 1, "D") THEN 1 ELSE 0
    IN  IF dig(p) /\ dig(p + 1) /\ dig(p + 2) /\ dig(p + 3) /\ is(p + 4, "Y")
           /\ ml > 0 /\ dl > 0
        THEN <<ml, dl>> ELSE <<>>

RECURSIVE DateFind(_, _)
DateFind(s, p) ==
    IF p > Len(s) THEN 0
    ELSE IF DateMatchAt(s, p) # <<>> THEN p ELSE DateFind(s, p + 1)

\* parse::<u32>() of one or two ASCII digits, then {:02}
Pad2(ds) ==
    LET n == IF Len(ds) = 1 THEN DigitVal(ds[1])
             ELSE 10 * DigitVal(ds[1]) + DigitVal(ds[2])
    IN  <<DigitSeq[(n \div 10) + 1], DigitSeq[(n % 10) + 1]>>

\* (variant) "{}-{}-{}": month and day are not padded
convert_chinese_date_to_iso_NoPad(chinese_date) ==
    LET p == DateFind(chinese_date, 1)
    IN  IF p = 0 THEN chinese_date
        ELSE LET m  == DateMatchAt(chinese_date, p)
                 ms == p + 5
                 ds == p + 5 + m[1] + 1
             IN  SubSeq(chinese_date, p, p + 3) \o <<"-">>
                 \o SubSeq(chinese_date, ms, ms + m[1] - 1) \o <<"-">>
                 \o SubSeq(chinese_date, ds, ds + m[2] - 1)

convert_chinese_date_to_iso(chinese_date) ==
    LET p == DateFind(chinese_date, 1)
    IN  IF p = 0 THEN chinese_date
        ELSE LET m  == DateMatchAt(chinese_date, p)
                 ms == p + 5
                 ds == p + 5 + m[1] + 1
             IN  SubSeq(chinese_date, p, p + 3) \o <<"-">>
                 \o Pad2(SubSeq(chinese_date, ms, ms + m[1] - 1)) \o <<"-">>
                 \o Pad2(SubSeq(chinese_date, ds, ds + m[2] - 1))

\* chrono::Utc::now() of the run, as the two strings generate_directory_name uses
current_year == <<"2", "0", "2", "6">>

current_date == <<"2", "0", "2", "6", "-", "1", "1", "-", "0", "3">>

\* generate_directory_name in a run whose chrono::Utc::now() falls on `today`
generate_directory_name_on(alb, template, today) ==
    LET r1 == Replace(template, <<"{", "a", "l", "b", "u", "m", "}">>,
                      sanitize_filename(alb.title))
        r2 == Replace(r1, <<"{", "l", "a", "b", "e", "l", "}">>,
                      sanitize_filename(alb.label))
        authors == IF alb.authors # None THEN alb.authors[1] ELSE alb.label
        r3 == Replace(r2, <<"{", "a", "u", "t", "h", "o", "r", "s", "}">>,
                      sanitize_filename(authors))
        year == IF alb.year # None THEN alb.year[1] ELSE SubSeq(today, 1, 4)
        r4 == Replace(r3, <<"{", "y", "e", "a", "r", "}">>, year)
        date == IF alb.release_date # None
                THEN convert_chinese_date_to_iso(alb.release_date[1])
                ELSE today
    IN  Replace(r4, <<"{", "d", "a", "t", "e", "}">>, date)

generate_directory_name(alb, template) ==
    generate_directory_name_on(alb, template, current_date)

get_album_directory(alb) == generate_directory_name(alb, config.template)

\* ------------------------------------------------------------ the inputs

\* config.download.formats
FormatLists == {<<"MP3">>, <<"gift", "FLAC">>}

\* config.paths.directory_template: the default "{album}/@{label}"
DefaultTemplate ==
    <<"{", "a", "l", "b", "u", "m", "}", "/", "@", "{", "l", "a", "b", "e", "l", "}">>

Templates == {DefaultTemplate}

Configs ==
    [ skip_existing : BOOLEAN, single_threaded : BOOLEAN,
      generate_readme : BOOLEAN, generate_nfo : BOOLEAN,
      metadata_only : BOOLEAN, flatten : BOOLEAN, formats : FormatLists,
      template : Templates ]

\* An entry of the catalog listing (AlbumListResponse.discs): the optional
\* fields are absent unless the listing carries them (serde default).
CatalogAlbum(i) ==
    [ id |-> i, title |-> <<"A", ":", DigitSeq[i + 1]>>, label |-> <<"L">>,
      cover |-> <<"c">>, only_have_gift |-> FALSE,
      release_date |-> None,
      description |-> IF i = 1 THEN Some(<<"d", "0">>) ELSE None,
      tags |-> IF i = 1 THEN <<<<"t", "0">>>> ELSE <<>>,
      year |-> None,
      authors |-> IF i = 1 THEN Some(<<"a", "0">>) ELSE None ]

\* no element is borrowed
NoAlbum ==
    [ id |-> 0, title |-> <<>>, label |-> <<>>, cover |-> <<>>,
      only_have_gift |-> FALSE, release_date |-> None, description |-> None,
      tags |-> <<>>, year |-> None, authors |-> None ]

DefaultTitle == <<"?", "t">>

DefaultLabel == <<"?", "l">>

\* What the extract_* functions return on a fetched detail page.
DetailPages ==
    { [ title |-> Some(<<"P">>), label |-> None,
        release_date |-> Some(<<"2", "0", "2", "5", "Y", "6", "M", "1", "0", "D">>),
        description |-> Some(<<"m", "u", "s", "i", "c", ":", "X">>),
        tags |-> <<<<"t", "1">>>>,
        year |-> Some(<<"2", "0", "2", "5">>), authors |-> Some(<<"X">>) ] }

\* get_album_details after the page was fetched and parsed
ApplyDetails(alb, page) ==
    [ alb EXCEPT
        !.title = IF alb.title = DefaultTitle /\ page.title # None
                  THEN page.title[1] ELSE @,
        !.label = IF alb.label = DefaultLabel /\ page.label # None
                  THEN page.label[1] ELSE @,
        !.release_date = page.release_date,
        !.description = page.description,
        !.tags = page.tags,
        !.year = page.year,
        !.authors = page.authors ]

\* sync_all_albums, before download_album
ResetOptional(alb) ==
    IF alb.release_date = None
    THEN [ alb EXCEPT !.release_date = None, !.description = None,
                        !.tags = <<>>, !.year = None, !.authors = None ]
    ELSE alb

PossibleDirs(template) ==
    { generate_directory_name(a, template) :
        a \in UNION { {ResetOptional(CatalogAlbum(i))}
                      \cup {ApplyDetails(CatalogAlbum(i), p) : p \in DetailPages} :
                      i \in 1..MaxAlbums } }

\* ------------------------------------------------- the download resolver

\* The download anchors of a detail page, in document order.  path and tp
\* are what the two selectors look at in the href, key is the value of its
\* k= parameter ("" when the href has none).
Anchors ==
    [path : {"download_gift"}, tp : {""}, key : {"", "k1"}]
    \cup [path : {"download"}, tp : {"MP3", "FLAC"}, key : {"", "k1"}]

RECURSIVE SeqsUpTo(_, _)
SeqsUpTo(S, n) ==
    IF n = 0 THEN {<<>>}
    ELSE SeqsUpTo(S, n - 1)
         \cup {Append(q, x) : q \in {r \in SeqsUpTo(S, n - 1) : Len(r) = n - 1}, x \in S}

Documents == SeqsUpTo(Anchors, MaxAnchors)

\* Result<String>: the key of the first anchor the format's selector matches
extract_download_key(doc, format) ==
    LET sel(a) == IF format = "gift" THEN a.path = "download_gift"
                  ELSE a.tp = format
        found == SelectSeq(doc, sel)
    IN  IF found # <<>> /\ found[1].key # ""
        THEN [ok |-> TRUE, key |-> found[1].key]
        ELSE [ok |-> FALSE, key |-> ""]

\* (variant) a missing key is an error for every format, "gift" included
get_download_links_Strict(doc, album_id, format) ==
    LET k == extract_download_key(doc, format)
    IN  IF ~k.ok THEN [ok |-> FALSE, links |-> {}]
        ELSE [ok |-> TRUE,
              links |-> { << format,
                             IF format = "gift"
                             THEN [tmpl |-> "download_gift", d |-> album_id,
                                   tp |-> "", k |-> k.key]
                             ELSE [tmpl |-> "download", d |-> album_id,
                                   tp |-> format, k |-> k.key] >> }]

\* Result<HashMap<String, String>> once the page is parsed; the map is the
\* set of its <<format, url>> entries.
get_download_links(doc, album_id, format) ==
    LET k == extract_download_key(doc, format)
    IN  IF ~k.ok
        THEN IF format = "gift" THEN [ok |-> TRUE, links |-> {}]
             ELSE [ok |-> FALSE, links |-> {}]
        ELSE [ok |-> TRUE,
              links |-> { << format,
                             IF format = "gift"
                             THEN [tmpl |-> "download_gift", d |-> album_id,
                                   tp |-> "", k |-> k.key]
                             ELSE [tmpl |-> "download", d |-> album_id,
                                   tp |-> format, k |-> k.key] >> }]

NoLinks == [ok |-> FALSE, links |-> {}]

\* --------------------------------------------------- the content fetcher

ZipBody == <<80, 75, 3, 4>>

Rar4Body == <<82, 97, 114, 33, 26, 7, 0>>

Rar5Magic == <<82, 97, 114, 33, 26, 7, 1, 0>>

HtmlBody == <<60, 104, 116, 109, 108>>

Bodies == {ZipBody, Rar4Body, HtmlBody}

\* A response as send() yields it: its status and its Location header
\* ("none": absent, "bad": not visible ASCII, so to_str() fails, "cdn": a URL).
\* The body is read afterwards, by bytes().
Responses ==
    [status : {200, 404}, location : {"none"}]
    \cup [status : {302}, location : {"none", "bad", "cdn"}]

NoResp == [status |-> 0, location |-> "none"]

is_redirection(status) == status >= 300 /\ status <= 399

is_success(status) == status >= 200 /\ status <= 299

\* (variant) both Rar magics are tested on buffers of 8 bytes or more only
detect_archive_format_Len8(data) ==
    IF Len(data) < 4 THEN "Unknown"
    ELSE IF SubSeq(data, 1, 2) = <<80, 75>> THEN "Zip"
    ELSE IF Len(data) >= 8 /\ SubSeq(data, 1, 8) = Rar5Magic THEN "Rar"
    ELSE IF Len(data) >= 8 /\ SubSeq(data, 1, 7) = Rar4Body THEN "Rar"
    ELSE "Unknown"

detect_archive_format(data) ==
    IF Len(data) < 4 THEN "Unknown"
    ELSE IF SubSeq(data, 1, 2) = <<80, 75>> THEN "Zip"
    ELSE IF Len(data) >= 8 /\ SubSeq(data, 1, 8) = Rar5Magic THEN "Rar"
    ELSE IF Len(data) >= 7 /\ SubSeq(data, 1, 7) = Rar4Body THEN "Rar"
    ELSE "Unknown"

get_file_extension(format) ==
    CASE format = "128" -> <<"m", "p", "3">>
      [] format = "MP3" -> <<"m", "p", "3">>
      [] format = "FLAC" -> <<"f", "l", "a", "c">>
      [] format = "gift" -> <<"u", "n", "k", "n", "o", "w", "n">>
      [] OTHER -> <<"b", "i", "n">>

\* a configured format as the characters of a path component
FormatChars(format) ==
    CASE format = "128" -> <<"1", "2", "8">>
      [] format = "MP3" -> <<"M", "P", "3">>
      [] format = "FLAC" -> <<"F", "L", "A", "C">>
      [] format = "gift" -> <<"g", "i", "f", "t">>

ReadmeName == <<"R", "E", "A", "D", "M", "E", ".", "m", "d">>

NfoName == <<"a", "l", "b", "u", "m", ".", "n", "f", "o">>

\* Option::unwrap_or
UnwrapOr(opt, default) == IF opt = None THEN default ELSE opt[1]

\* [String]::join
RECURSIVE Join(_, _)
Join(strs, sep) ==
    IF strs = <<>> THEN <<>>
    ELSE IF Len(strs) = 1 THEN strs[1]
    ELSE strs[1] \o sep \o Join(Tail(strs), sep)

\* the two placeholder texts of apply_template_variables, transliterated
UnknownZh == <<"w", "e", "i", "z", "h", "i">>

NoDescriptionZh == <<"z", "a", "n", "w", "u">>

UnknownEn == <<"U", "n", "k", "n", "o", "w", "n">>

MusicEn == <<"M", "u", "s", "i", "c">>

\* apply_template_variables: the text each placeholder of the README template
\* is replaced by ({download_date} and {formats} do not come from the item)
apply_template_variables(alb) ==
    [ album |-> alb.title, label |-> alb.label, id |-> alb.id, cover |-> alb.cover,
      release_date |-> UnwrapOr(alb.release_date, UnknownZh),
      description |-> UnwrapOr(alb.description, NoDescriptionZh),
      tags |-> Join(alb.tags, <<",", " ">>),
      authors |-> UnwrapOr(alb.authors, alb.label),
      year |-> UnwrapOr(alb.year, UnknownZh) ]

\* generate_nfo_content: the text of each element of the document
generate_nfo_content(alb) ==
    [ title |-> alb.title,
      artist |-> UnwrapOr(alb.authors, alb.label),
      genre |-> IF alb.tags = <<>> THEN MusicEn ELSE alb.tags[1],
      year |-> UnwrapOr(alb.year, UnknownEn),
      releasedate |-> UnwrapOr(alb.release_date, UnknownEn),
      label |-> alb.label, id |-> alb.id,
      plot |-> UnwrapOr(alb.description, <<>>),
      tags |-> alb.tags ]

\* a sidecar file in the item directory
Sidecar(name, content) == [name |-> name, content |-> content]

\* format!("temp_{}.rar", album.id)
TempRarName(id) == <<"t", "e", "m", "p", "_", DigitSeq[id + 1], ".", "r", "a", "r">>

\* The stored names of archive members: a file at the top, a file under a
\* sub-path, and the directory entry of that sub-path.
MemberName == <<"0", "1", ".", "w", "a", "v">>

MemberInDir == <<"C", "D", "1", "/", "0", "2", ".", "w", "a", "v">>

MemberDir == <<"C", "D", "1", "/">>

Members ==
    { [name |-> MemberName, is_dir |-> FALSE], [name |-> MemberInDir, is_dir |-> FALSE],
      [name |-> MemberDir, is_dir |-> TRUE] }

\* an archive as the libraries list it: its entries in stored order
Archives == SeqsUpTo(Members, MaxMembers)

\* Stored names are whatever the archive's author wrote (name_raw(), the
\* entry's filename): a name that climbs out of its directory, an absolute one.
MemberClimbing == <<".", ".", "/", "x", ".", "w", "a", "v">>

MemberAbsolute == <<"/", "x", ".", "w", "a", "v">>

HostileMembers ==
    { [name |-> MemberClimbing, is_dir |-> FALSE], [name |-> MemberAbsolute, is_dir |-> FALSE] }

AnyArchives == SeqsUpTo(Members \cup HostileMembers, MaxMembers)

\* item titles as the server may send them
AnyTitles ==
    { <<"A", ":", "1">>, <<"a", "/", "b">>, <<".", ".", "/", "x">>, <<"/", "x">> }

\* What goes wrong while an archive is extracted: nothing; the archive cannot
\* be opened; the header of entry `at` cannot be read; its data cannot be
\* read; its output file or directory cannot be created.
NoFault == [kind |-> "none", at |-> 0]

Fault(kind, at) == [kind |-> kind, at |-> at]

ZipFaults(a) ==
    {NoFault, Fault("open", 0)} \cup {Fault(k, i) : k \in {"header", "data", "io"}, i \in 1..Len(a)}

\* for Rar also: the temporary file cannot be written
RarFaults(a) == ZipFaults(a) \cup {Fault("temp", 0)}

Extracted(res, files, hit) == [res |-> res, files |-> files, hit |-> hit]

\* --------------------------------------------------------- the log entries

Op(op, fmt, cookie) == [op |-> op, fmt |-> fmt, cookie |-> cookie]

NetOps == {"details", "links", "file", "cdn"}

Ev(ev, id, secs) == [ev |-> ev, id |-> id, secs |-> secs]

\* no function is being called
NoCall == [fn |-> "none", arg |-> <<>>, ret |-> <<>>, done |-> FALSE]

Calling(fn, arg) == [fn |-> fn, arg |-> arg, ret |-> <<>>, done |-> FALSE]

\* ------------------------------------------------------ sync_all_albums

\* the element of albums the loop has borrowed (for album in albums.iter_mut())
Cur == album

CurFormat == config.formats[fmtIdx]

\* the end of one iteration: the borrow of the element ends, and the records
\* kept of the item's processing are dropped
ItemOver ==
    /\ album' = NoAlbum
    /\ album_dir' = <<>>
    /\ fmtIdx' = 1
    /\ sidecars' = {}
    /\ itemlog' = <<>>
    /\ attempted' = <<>>
    /\ fmtResult' = "none"
    /\ outcome' = "none"

\* the locals of download_format and of the client calls under it, dropped
ClearedLocals ==
    /\ document' = <<>>
    /\ download_links' = NoLinks
    /\ resp' = NoResp
    /\ cdn_resp' = NoResp
    /\ file_data' = <<>>

WalkIdle ==
    /\ wpc = "idle" /\ offset = 0 /\ all_albums = <<>>
    /\ wreqs = <<>> /\ wpages = <<>> /\ wret = [ok |-> FALSE, items |-> <<>>]

Init ==
    /\ config \in Configs
    /\ albums = [i \in 1..MaxAlbums |-> CatalogAlbum(i)]
    /\ album = NoAlbum
    /\ dirs \in {D \in SUBSET PossibleDirs(config.template) : Cardinality(D) <= MaxPreDirs}
    /\ rootDir \in {r \in BOOLEAN : dirs # {} => r}
    /\ sidecars = {}
    /\ written = {}
    /\ pc = "start"
    /\ idx = 1
    /\ fmtIdx = 1
    /\ album_dir = <<>>
    /\ document = <<>>
    /\ download_links = NoLinks
    /\ resp = NoResp
    /\ cdn_resp = NoResp
    /\ file_data = <<>>
    /\ fmtResult = "none"
    /\ outcome = "none"
    /\ itemlog = <<>>
    /\ fmtlog = <<>>
    /\ attempted = <<>>
    /\ trace = <<>>
    /\ prior = <<>>
    /\ WalkIdle
    /\ call = NoCall

\* fs::create_dir_all(&self.config.paths.output_dir)?
CreateOutputDir ==
    /\ pc = "start"
    /\ \E ok \in {o \in BOOLEAN : rootDir => o} :
         IF ok THEN rootDir' = TRUE /\ pc' = "loop"
         ELSE rootDir' = rootDir /\ pc' = "run_err"
    /\ UNCHANGED <<config, albums, album, dirs, sidecars, written, idx, fmtIdx,
                   album_dir, document, download_links, resp, cdn_resp, file_data,
                   fmtResult, outcome, itemlog, fmtlog, attempted, trace, prior, wpc,
                   offset, all_albums, wreqs, wpages, wret, call>>

\* the head of one iteration of the for loop, up to the call of download_album
NextAlbum ==
    /\ pc = "loop"
    /\ idx <= Len(albums)
    /\ album' = ResetOptional(albums[idx])
    /\ trace' = Append(trace, Ev("start", albums[idx].id, 0))
    /\ itemlog' = <<>>
    /\ fmtlog' = <<>>
    /\ attempted' = <<>>
    /\ sidecars' = {}
    /\ written' = {}
    /\ fmtResult' = "none"
    /\ outcome' = "running"
    /\ pc' = "details"
    /\ UNCHANGED <<config, albums, rootDir, dirs, idx, fmtIdx, album_dir, document,
                   download_links, resp, cdn_resp, file_data, prior, wpc, offset,
                   all_albums, wreqs, wpages, wret, call>>

\* the loop is exhausted: Ok(())
SyncDone ==
    /\ pc = "loop"
    /\ idx > Len(albums)
    /\ pc' = "run_ok"
    /\ UNCHANGED <<config, albums, album, rootDir, dirs, sidecars, written, idx, fmtIdx,
                   album_dir, document, download_links, resp, cdn_resp, file_data,
                   fmtResult, outcome, itemlog, fmtlog, attempted, trace, prior, wpc,
                   offset, all_albums, wreqs, wpages, wret, call>>

\* download_album returned Ok: the pacing delay, then the next iteration
AfterAlbumOk ==
    /\ pc = "item_ok"
    /\ trace' = IF config.single_threaded
                THEN Append(trace, Ev("sleep", 0, PacingSecs))
                ELSE trace
    /\ idx' = idx + 1
    /\ pc' = "loop"
    /\ ItemOver
    /\ UNCHANGED <<config, albums, rootDir, dirs, written, document, download_links,
                   resp, cdn_resp, file_data, fmtlog, prior, wpc, offset, all_albums,
                   wreqs, wpages, wret, call>>

\* (variant) the error of download_album is propagated instead of logged
AfterAlbumErr_Stop ==
    /\ pc = "item_err"
    /\ pc' = "run_err"
    /\ UNCHANGED <<config, albums, album, rootDir, dirs, sidecars, written, idx, fmtIdx,
                   album_dir, document, download_links, resp, cdn_resp, file_data,
                   fmtResult, outcome, itemlog, fmtlog, attempted, trace, prior, wpc,
                   offset, all_albums, wreqs, wpages, wret, call>>

\* download_album returned Err: logged, continue
AfterAlbumErr ==
    /\ pc = "item_err"
    /\ idx' = idx + 1
    /\ pc' = "loop"
    /\ ItemOver
    /\ UNCHANGED <<config, albums, rootDir, dirs, written, document, download_links,
                   resp, cdn_resp, file_data, fmtlog, trace, prior, wpc, offset,
                   all_albums, wreqs, wpages, wret, call>>

\* ------------------------------------------------------- download_album

\* download_album returns Ok(()) or Err(..) to sync_all_albums
AlbumEnds(how) ==
    /\ outcome' = how
    /\ trace' = Append(trace, Ev(IF how = "failed" THEN "end_err" ELSE "end_ok", Cur.id, 0))
    /\ pc' = IF how = "failed" THEN "item_err" ELSE "item_ok"

\* (variant) get_album_details(album).await? : a failed fetch ends the item
GetAlbumDetails_Fatal ==
    /\ pc = "details"
    /\ itemlog' = Append(itemlog, Op("details", "", TRUE))
    /\ \/ UNCHANGED album /\ AlbumEnds("failed")
       \/ /\ \E page \in DetailPages : album' = ApplyDetails(album, page)
          /\ pc' = "dircheck"
          /\ UNCHANGED <<outcome, trace>>
    /\ UNCHANGED <<config, albums, rootDir, dirs, sidecars, written, idx, fmtIdx,
                   album_dir, document, download_links, resp, cdn_resp, file_data,
                   fmtResult, fmtlog, attempted, prior, wpc, offset, all_albums, wreqs,
                   wpages, wret, call>>

\* self.client.get_album_details(album): one request with the cookie; a
\* failure of the request or of reading its body leaves the album as it is.
GetAlbumDetails ==
    /\ pc = "details"
    /\ itemlog' = Append(itemlog, Op("details", "", TRUE))
    /\ \/ UNCHANGED album
       \/ \E page \in DetailPages :
            album' = ApplyDetails(album, page)
    /\ pc' = "dircheck"
    /\ UNCHANGED <<config, albums, rootDir, dirs, sidecars, written, idx, fmtIdx,
                   album_dir, document, download_links, resp, cdn_resp, file_data,
                   fmtResult, outcome, fmtlog, attempted, trace, prior, wpc, offset,
                   all_albums, wreqs, wpages, wret, call>>

\* (variant) the skip_existing test is missing
DirectoryCheck_NoSkip ==
    /\ pc = "dircheck"
    /\ album_dir' = get_album_directory(Cur)
    /\ pc' = "mkdir"
    /\ UNCHANGED <<config, albums, album, rootDir, dirs, sidecars, written, idx, fmtIdx,
                   document, download_links, resp, cdn_resp, file_data, fmtResult,
                   outcome, itemlog, fmtlog, attempted, trace, prior, wpc, offset,
                   all_albums, wreqs, wpages, wret, call>>

\* get_album_directory, then the skip_existing test
DirectoryCheck ==
    /\ pc = "dircheck"
    /\ album_dir' = get_album_directory(Cur)
    /\ IF config.skip_existing /\ album_dir' \in dirs
       THEN AlbumEnds("skipped")
       ELSE pc' = "mkdir" /\ UNCHANGED <<outcome, trace>>
    /\ UNCHANGED <<config, albums, album, rootDir, dirs, sidecars, written, idx, fmtIdx,
                   document, download_links, resp, cdn_resp, file_data, fmtResult,
                   itemlog, fmtlog, attempted, prior, wpc, offset, all_albums, wreqs,
                   wpages, wret, call>>

\* fs::create_dir_all(&album_dir)?
CreateAlbumDir ==
    /\ pc = "mkdir"
    /\ itemlog' = Append(itemlog, Op("mkdir", "", FALSE))
    /\ \E ok \in {o \in BOOLEAN : album_dir \in dirs => o} :
         IF ok
         THEN /\ dirs' = dirs \cup {album_dir}
              /\ pc' = "readme"
              /\ UNCHANGED <<outcome, trace>>
         ELSE /\ dirs' = dirs
              /\ AlbumEnds("failed")
    /\ UNCHANGED <<config, albums, album, rootDir, sidecars, written, idx, fmtIdx,
                   album_dir, document, download_links, resp, cdn_resp, file_data,
                   fmtResult, fmtlog, attempted, prior, wpc, offset, all_albums, wreqs,
                   wpages, wret, call>>

\* if generate_readme { generate_readme(..) }: a failure is logged only
GenerateReadme ==
    /\ pc = "readme"
    /\ IF config.generate_readme
       THEN /\ itemlog' = Append(itemlog, Op("readme", "", FALSE))
            /\ \E ok \in BOOLEAN :
                 sidecars' = IF ok THEN sidecars \cup {Sidecar(ReadmeName, apply_template_variables(Cur))}
                             ELSE sidecars
       ELSE UNCHANGED <<itemlog, sidecars>>
    /\ pc' = "nfo"
    /\ UNCHANGED <<config, albums, album, rootDir, dirs, written, idx, fmtIdx, album_dir,
                   document, download_links, resp, cdn_resp, file_data, fmtResult,
                   outcome, fmtlog, attempted, trace, prior, wpc, offset, all_albums,
                   wreqs, wpages, wret, call>>

\* if generate_nfo { generate_nfo(..) }: a failure is logged only
GenerateNfo ==
    /\ pc = "nfo"
    /\ IF config.generate_nfo
       THEN /\ itemlog' = Append(itemlog, Op("nfo", "", FALSE))
            /\ \E ok \in BOOLEAN :
                 sidecars' = IF ok THEN sidecars \cup {Sidecar(NfoName, generate_nfo_content(Cur))}
                             ELSE sidecars
       ELSE UNCHANGED <<itemlog, sidecars>>
    /\ pc' = "metaonly"
    /\ UNCHANGED <<config, albums, album, rootDir, dirs, written, idx, fmtIdx, album_dir,
                   document, download_links, resp, cdn_resp, file_data, fmtResult,
                   outcome, fmtlog, attempted, trace, prior, wpc, offset, all_albums,
                   wreqs, wpages, wret, call>>

\* (variant) the metadata_only test is missing
MetadataOnlyCheck_Ignore ==
    /\ pc = "metaonly"
    /\ pc' = "fmtloop"
    /\ fmtIdx' = 1
    /\ UNCHANGED <<config, albums, album, rootDir, dirs, sidecars, written, idx,
                   album_dir, document, download_links, resp, cdn_resp, file_data,
                   fmtResult, outcome, itemlog, fmtlog, attempted, trace, prior, wpc,
                   offset, all_albums, wreqs, wpages, wret, call>>

\* if metadata_only { return Ok(()) }, else enter the format loop
MetadataOnlyCheck ==
    /\ pc = "metaonly"
    /\ IF config.metadata_only
       THEN AlbumEnds("done") /\ UNCHANGED fmtIdx
       ELSE pc' = "fmtloop" /\ fmtIdx' = 1 /\ UNCHANGED <<outcome, trace>>
    /\ UNCHANGED <<config, albums, album, rootDir, dirs, sidecars, written, idx,
                   album_dir, document, download_links, resp, cdn_resp, file_data,
                   fmtResult, itemlog, fmtlog, attempted, prior, wpc, offset, all_albums,
                   wreqs, wpages, wret, call>>

\* the next format of the loop: download_format is called
NextFormat ==
    /\ pc = "fmtloop"
    /\ fmtIdx <= Len(config.formats)
    /\ attempted' = Append(attempted, config.formats[fmtIdx])
    /\ fmtlog' = <<>>
    /\ written' = {}
    /\ pc' = "links"
    /\ UNCHANGED <<config, albums, album, rootDir, dirs, sidecars, idx, fmtIdx,
                   album_dir, document, download_links, resp, cdn_resp, file_data,
                   fmtResult, outcome, itemlog, trace, prior, wpc, offset, all_albums,
                   wreqs, wpages, wret, call>>

\* the format loop is exhausted: Ok(())
FormatsDone ==
    /\ pc = "fmtloop"
    /\ fmtIdx > Len(config.formats)
    /\ AlbumEnds("done")
    /\ UNCHANGED <<config, albums, album, rootDir, dirs, sidecars, written, idx, fmtIdx,
                   album_dir, document, download_links, resp, cdn_resp, file_data,
                   fmtResult, itemlog, fmtlog, attempted, prior, wpc, offset, all_albums,
                   wreqs, wpages, wret, call>>

\* (variant) download_format(..)? : a format's error ends download_album
FormatReturned_Abort ==
    /\ pc = "fmt_ret"
    /\ IF fmtResult = "err"
       THEN AlbumEnds("failed") /\ UNCHANGED fmtIdx
       ELSE fmtIdx' = fmtIdx + 1 /\ pc' = "fmtloop" /\ UNCHANGED <<outcome, trace>>
    /\ fmtlog' = <<>>
    /\ written' = {}
    /\ UNCHANGED <<config, albums, album, rootDir, dirs, sidecars, idx, album_dir,
                   document, download_links, resp, cdn_resp, file_data, fmtResult,
                   itemlog, attempted, prior, wpc, offset, all_albums, wreqs, wpages,
                   wret, call>>

\* download_format returned (Ok, or Err which is logged): continue; the
\* records kept of the call are dropped
FormatReturned ==
    /\ pc = "fmt_ret"
    /\ fmtIdx' = fmtIdx + 1
    /\ pc' = "fmtloop"
    /\ fmtlog' = <<>>
    /\ written' = {}
    /\ UNCHANGED <<config, albums, album, rootDir, dirs, sidecars, idx, album_dir,
                   document, download_links, resp, cdn_resp, file_data, fmtResult,
                   outcome, itemlog, attempted, trace, prior, wpc, offset, all_albums,
                   wreqs, wpages, wret, call>>

\* ------------------------------------------------------ download_format

\* download_format returns Err(..) or Ok(()) to the format loop; its locals go
FormatEnds(result) ==
    /\ fmtResult' = result
    /\ pc' = "fmt_ret"
    /\ ClearedLocals

\* get_download_links: the request for the detail page and its parsing
GetDownloadLinksSend ==
    /\ pc = "links"
    /\ fmtlog' = Append(fmtlog, Op("links", CurFormat, TRUE))
    /\ \/ FormatEnds("err")
       \/ \E doc \in Documents :
            /\ document' = doc
            /\ pc' = "links_parsed"
            /\ UNCHANGED <<fmtResult, download_links, resp, cdn_resp, file_data>>
    /\ UNCHANGED <<config, albums, album, rootDir, dirs, sidecars, written, idx, fmtIdx,
                   album_dir, outcome, itemlog, attempted, trace, prior, wpc, offset,
                   all_albums, wreqs, wpages, wret, call>>

\* get_download_links returns; download_format tests the result
DownloadFormatLinks ==
    /\ pc = "links_parsed"
    /\ LET r == get_download_links(document, Cur.id, CurFormat)
       IN  IF ~r.ok THEN FormatEnds("err")
           ELSE IF r.links = {} THEN FormatEnds("ok")
           ELSE IF ~(\E e \in r.links : e[1] = CurFormat) THEN FormatEnds("err")
           ELSE /\ download_links' = r
                /\ document' = <<>>
                /\ pc' = "fetch"
                /\ UNCHANGED <<fmtResult, resp, cdn_resp, file_data>>
    /\ UNCHANGED <<config, albums, album, rootDir, dirs, sidecars, written, idx, fmtIdx,
                   album_dir, outcome, itemlog, fmtlog, attempted, trace, prior, wpc,
                   offset, all_albums, wreqs, wpages, wret, call>>

\* (variant) a failed request is tried once more with the same URL
DownloadFileSend_Retry ==
    /\ pc = "fetch"
    /\ fmtlog' = Append(fmtlog, Op("file", CurFormat, TRUE))
    /\ \/ IF fmtlog[Len(fmtlog)].op # "file"
          THEN UNCHANGED <<pc, fmtResult, document, download_links, resp, cdn_resp,
                           file_data>>
          ELSE FormatEnds("err")
       \/ \E r \in Responses :
            /\ resp' = r
            /\ pc' = "file_resp"
            /\ UNCHANGED <<fmtResult, document, download_links, cdn_resp, file_data>>
    /\ UNCHANGED <<config, albums, album, rootDir, dirs, sidecars, written, idx, fmtIdx,
                   album_dir, outcome, itemlog, attempted, trace, prior, wpc, offset,
                   all_albums, wreqs, wpages, wret, call>>

\* download_file: the request to the resolved URL, with cookie and referer
DownloadFileSend ==
    /\ pc = "fetch"
    /\ fmtlog' = Append(fmtlog, Op("file", CurFormat, TRUE))
    /\ \/ FormatEnds("err")
       \/ \E r \in Responses :
            /\ resp' = r
            /\ pc' = "file_resp"
            /\ UNCHANGED <<fmtResult, document, download_links, cdn_resp, file_data>>
    /\ UNCHANGED <<config, albums, album, rootDir, dirs, sidecars, written, idx, fmtIdx,
                   album_dir, outcome, itemlog, attempted, trace, prior, wpc, offset,
                   all_albums, wreqs, wpages, wret, call>>

\* download_file after the response: the redirection test, else bytes()
DownloadFileResponse ==
    /\ pc = "file_resp"
    /\ IF is_redirection(resp.status) /\ resp.location # "none"
       THEN IF resp.location = "bad" THEN FormatEnds("err")
            ELSE /\ pc' = "cdn"
                 /\ UNCHANGED <<fmtResult, document, download_links, resp, cdn_resp,
                                file_data>>
       ELSE \/ \E body \in Bodies :
                 /\ file_data' = body
                 /\ pc' = "classify"
                 /\ UNCHANGED <<fmtResult, document, download_links, resp, cdn_resp>>
            \/ FormatEnds("err")
    /\ UNCHANGED <<config, albums, album, rootDir, dirs, sidecars, written, idx, fmtIdx,
                   album_dir, outcome, itemlog, fmtlog, attempted, trace, prior, wpc,
                   offset, all_albums, wreqs, wpages, wret, call>>

\* (variant) the CDN request goes through the redirect test again
DownloadFromCdn_Follow ==
    /\ pc = "cdn"
    /\ fmtlog' = Append(fmtlog, Op("cdn", CurFormat, FALSE))
    /\ \/ FormatEnds("err")
       \/ \E r \in Responses, body \in Bodies :
            /\ cdn_resp' = r
            /\ IF is_redirection(r.status) /\ r.location = "cdn"
               THEN pc' = "cdn" /\ UNCHANGED file_data
               ELSE pc' = "classify" /\ file_data' = body
            /\ UNCHANGED <<fmtResult, document, download_links, resp>>
    /\ UNCHANGED <<config, albums, album, rootDir, dirs, sidecars, written, idx, fmtIdx,
                   album_dir, outcome, itemlog, attempted, trace, prior, wpc, offset,
                   all_albums, wreqs, wpages, wret, call>>

\* download_from_cdn: one request without cookie; bytes() whatever the status
DownloadFromCdn ==
    /\ pc = "cdn"
    /\ fmtlog' = Append(fmtlog, Op("cdn", CurFormat, FALSE))
    /\ \/ FormatEnds("err")
       \/ \E r \in Responses, body \in Bodies :
            /\ cdn_resp' = r
            /\ file_data' = body
            /\ pc' = "classify"
            /\ UNCHANGED <<fmtResult, document, download_links, resp>>
    /\ UNCHANGED <<config, albums, album, rootDir, dirs, sidecars, written, idx, fmtIdx,
                   album_dir, outcome, itemlog, attempted, trace, prior, wpc, offset,
                   all_albums, wreqs, wpages, wret, call>>

\* PathBuf::join for paths written relative to album_dir, <<>> being
\* album_dir itself: an absolute path replaces the base
PathJoin(base, p) ==
    IF p # <<>> /\ p[1] = "/" THEN p
    ELSE IF base = <<>> THEN p
    ELSE base \o <<"/">> \o p

\* where a member of an archive is written, relative to album_dir
output_path(flatten, format, file_name) ==
    IF flatten THEN PathJoin(<<>>, file_name)
    ELSE PathJoin(FormatChars(format), file_name)

\* where a payload that is no archive is written, relative to album_dir
file_path(title, format) ==
    PathJoin(<<>>, title \o <<".">> \o get_file_extension(format))

\* extract_zip_file from entry i on; files: the paths written so far
RECURSIVE ZipFrom(_, _, _, _, _, _)
ZipFrom(a, i, flatten, format, fault, files) ==
    IF i > Len(a) THEN Extracted("ok", files, "none")
    ELSE IF fault = Fault("header", i) THEN Extracted("err", files, "header")
    ELSE IF a[i].name[Len(a[i].name)] = "/" THEN ZipFrom(a, i + 1, flatten, format, fault, files)
    ELSE IF fault = Fault("io", i) THEN Extracted("err", files, "io")
    ELSE IF fault = Fault("data", i)
         THEN Extracted("err", files \cup {output_path(flatten, format, a[i].name)}, "data")
    ELSE ZipFrom(a, i + 1, flatten, format, fault,
                 files \cup {output_path(flatten, format, a[i].name)})

\* extract_zip_file: ZipArchive::new(..)?, then every entry in turn
extract_zip_file(a, flatten, format, fault) ==
    IF fault.kind = "open" THEN Extracted("err", {}, "open")
    ELSE ZipFrom(a, 1, flatten, format, fault, {})

\* process_rar_archive from entry i on: an unreadable header ends the loop
RECURSIVE RarFrom(_, _, _, _, _, _)
RarFrom(a, i, flatten, format, fault, files) ==
    IF i > Len(a) THEN Extracted("ok", files, "none")
    ELSE IF fault = Fault("header", i) THEN Extracted("ok", files, "header")
    ELSE IF a[i].is_dir
         THEN IF fault = Fault("data", i) THEN Extracted("err", files, "data")
              ELSE RarFrom(a, i + 1, flatten, format, fault, files)
    ELSE IF fault = Fault("io", i) THEN Extracted("err", files, "io")
    ELSE IF fault = Fault("data", i) THEN Extracted("err", files, "data")
    ELSE RarFrom(a, i + 1, flatten, format, fault,
                 files \cup {output_path(flatten, format, a[i].name)})

\* extract_rar_file: the temporary file, open_for_processing()?, the entries,
\* then remove_file, whose failure is logged only
extract_rar_file(a, id, flatten, format, fault, removed) ==
    IF fault.kind = "temp" THEN Extracted("err", {}, "temp")
    ELSE IF fault.kind = "open" THEN Extracted("err", {TempRarName(id)}, "open")
    ELSE LET r == RarFrom(a, 1, flatten, format, fault, {})
         IN  IF r.res = "err" \/ ~removed
             THEN [r EXCEPT !.files = @ \cup {TempRarName(id)}]
             ELSE r

\* the format names the configurations ask for
FormatNames == UNION {{fl[i] : i \in DOMAIN fl} : fl \in FormatLists}

\* What extracting a downloaded archive can leave behind and report, over the
\* archives and the faults, for each setting of flatten and each format name.
ZipOutcomes ==
    [ flatten \in BOOLEAN, format \in FormatNames |->
        { [res |-> r.res, files |-> r.files] :
            r \in UNION {{extract_zip_file(a, flatten, format, f) : f \in ZipFaults(a)} :
                           a \in Archives} } ]

RarOutcomes ==
    [ id \in 1..MaxAlbums, flatten \in BOOLEAN, format \in FormatNames |->
        { [res |-> r.res, files |-> r.files] :
            r \in UNION {{extract_rar_file(a, id, flatten, format, f, rm) :
                            f \in RarFaults(a), rm \in BOOLEAN} : a \in Archives} } ]

\* ArchiveFormat::Zip => extract_zip_file(..)?
ExtractZip ==
    /\ pc = "classify"
    /\ detect_archive_format(file_data) = "Zip"
    /\ fmtlog' = Append(fmtlog, Op("extract", CurFormat, FALSE))
    /\ \E r \in ZipOutcomes[config.flatten, CurFormat] :
         /\ written' = written \cup r.files
         /\ FormatEnds(r.res)
    /\ UNCHANGED <<config, albums, album, rootDir, dirs, sidecars, idx, fmtIdx,
                   album_dir, outcome, itemlog, attempted, trace, prior, wpc, offset,
                   all_albums, wreqs, wpages, wret, call>>

\* ArchiveFormat::Rar => extract_rar_file(..)?
ExtractRar ==
    /\ pc = "classify"
    /\ detect_archive_format(file_data) = "Rar"
    /\ fmtlog' = Append(fmtlog, Op("extract", CurFormat, FALSE))
    /\ \E r \in RarOutcomes[Cur.id, config.flatten, CurFormat] :
         /\ written' = written \cup r.files
         /\ FormatEnds(r.res)
    /\ UNCHANGED <<config, albums, album, rootDir, dirs, sidecars, idx, fmtIdx,
                   album_dir, outcome, itemlog, attempted, trace, prior, wpc, offset,
                   all_albums, wreqs, wpages, wret, call>>

\* ArchiveFormat::Unknown => the payload is written as <title>.<extension>
SaveRaw ==
    /\ pc = "classify"
    /\ detect_archive_format(file_data) = "Unknown"
    /\ fmtlog' = Append(fmtlog, Op("save", CurFormat, FALSE))
    /\ \/ /\ written' = written \cup {file_path(Cur.title, CurFormat)}
          /\ FormatEnds("ok")
       \/ /\ UNCHANGED written
          /\ FormatEnds("err")
    /\ UNCHANGED <<config, albums, album, rootDir, dirs, sidecars, idx, fmtIdx,
                   album_dir, outcome, itemlog, attempted, trace, prior, wpc, offset,
                   all_albums, wreqs, wpages, wret, call>>

\* The process stops while an archive is being extracted: some of the
\* archive's files are in the item directory, nothing is cleaned up.
Crash ==
    /\ pc = "classify"
    /\ detect_archive_format(file_data) \in {"Zip", "Rar"}
    /\ fmtlog' = Append(fmtlog, Op("extract", CurFormat, FALSE))
    /\ \E r \in IF detect_archive_format(file_data) = "Zip"
                THEN ZipOutcomes[config.flatten, CurFormat]
                ELSE RarOutcomes[Cur.id, config.flatten, CurFormat] :
         written' = written \cup r.files
    /\ pc' = "crashed"
    /\ UNCHANGED <<config, albums, album, rootDir, dirs, sidecars, idx, fmtIdx,
                   album_dir, document, download_links, resp, cdn_resp, file_data,
                   fmtResult, outcome, itemlog, attempted, trace, prior, wpc, offset,
                   all_albums, wreqs, wpages, wret, call>>

\* The program is started again over the same output root with the same
\* configuration and listing: main builds a new Downloader and calls
\* sync_all_albums; only the file system is carried over.
Rerun ==
    /\ pc \in {"run_ok", "run_err", "crashed"}
    /\ Len(prior) < MaxRuns - 1
    /\ prior' = Append(prior, [how |-> pc, item |-> album.id])
    /\ pc' = "start"
    /\ idx' = 1
    /\ trace' = <<>>
    /\ fmtlog' = <<>>
    /\ written' = {}
    /\ ItemOver
    /\ ClearedLocals
    /\ UNCHANGED <<config, albums, rootDir, dirs, wpc, offset, all_albums, wreqs, wpages,
                   wret, call>>

Next ==
    \/ CreateOutputDir \/ NextAlbum \/ SyncDone \/ AfterAlbumOk \/ AfterAlbumErr
    \/ GetAlbumDetails \/ DirectoryCheck \/ CreateAlbumDir \/ GenerateReadme
    \/ GenerateNfo \/ MetadataOnlyCheck \/ NextFormat \/ FormatsDone
    \/ FormatReturned \/ GetDownloadLinksSend \/ DownloadFormatLinks
    \/ DownloadFileSend \/ DownloadFileResponse \/ DownloadFromCdn
    \/ ExtractZip \/ ExtractRar \/ SaveRaw

Spec == Init /\ [][Next]_vars

\* A first run over an empty output root, then later runs.
InitRerun ==
    /\ Init
    /\ dirs = {} /\ ~rootDir
    /\ config.generate_readme /\ ~config.generate_nfo
    /\ ~config.single_threaded /\ ~config.flatten /\ ~config.metadata_only

NextRerun == Next \/ Crash \/ Rerun

SpecRerun == InitRerun /\ [][NextRerun]_vars

\* ------------------------------------------------------ get_user_albums

\* The decoded AlbumListResponse of one page request: discs and canshowmore.
\* The server may list an item on two pages, or twice on one.
PageAnswers ==
    [ discs : SeqsUpTo({CatalogAlbum(1), CatalogAlbum(2)}, MaxDiscs),
      can_show_more : BOOLEAN ]

WalkErr == [ok |-> FALSE, items |-> <<>>]

WalkOk(items) == [ok |-> TRUE, items |-> items]

\* Config::default(), with the two flags the configuration file may add
IdleConfig ==
    [ skip_existing |-> TRUE, single_threaded |-> TRUE,
      generate_readme |-> TRUE, generate_nfo |-> TRUE,
      metadata_only |-> FALSE, flatten |-> FALSE,
      formats |-> <<"MP3", "FLAC">>, template |-> DefaultTemplate ]

\* sync_all_albums has not been called
SyncNotRunning ==
    /\ albums = <<>> /\ album = NoAlbum
    /\ dirs = {} /\ rootDir = FALSE /\ sidecars = {} /\ written = {}
    /\ pc = "idle" /\ idx = 1 /\ fmtIdx = 1 /\ album_dir = <<>>
    /\ document = <<>> /\ download_links = NoLinks
    /\ resp = NoResp /\ cdn_resp = NoResp /\ file_data = <<>>
    /\ fmtResult = "none" /\ outcome = "none"
    /\ itemlog = <<>> /\ fmtlog = <<>> /\ attempted = <<>> /\ trace = <<>>
    /\ prior = <<>>

\* The pipeline is not running while a walk is observed.
SyncIdle == config = IdleConfig /\ SyncNotRunning

InitWalk ==
    /\ wpc = "token"
    /\ offset = 0
    /\ all_albums = <<>>
    /\ wreqs = <<>>
    /\ wpages = <<>>
    /\ wret = WalkErr
    /\ SyncIdle
    /\ call = NoCall

\* let token = self.get_user_token(uid).await?
GetUserToken ==
    /\ wpc = "token"
    /\ \/ wpc' = "page" /\ UNCHANGED wret
       \/ wpc' = "done" /\ wret' = WalkErr
    /\ UNCHANGED <<offset, all_albums, wreqs, wpages, config, albums, album, rootDir,
                   dirs, sidecars, written, pc, idx, fmtIdx, album_dir, document,
                   download_links, resp, cdn_resp, file_data, fmtResult, outcome,
                   itemlog, fmtlog, attempted, trace, prior, call>>

\* (variant) offset += LIMIT is missing
FetchPage_NoAdvance ==
    /\ wpc = "page"
    /\ wreqs' = Append(wreqs, offset)
    /\ \/ /\ wpc' = "done"
          /\ wret' = WalkErr
          /\ UNCHANGED <<all_albums, wpages>>
       \/ \E p \in {q \in PageAnswers : q.can_show_more => Len(wreqs) + 1 < MaxPages} :
            /\ wpages' = Append(wpages, p)
            /\ all_albums' = all_albums \o p.discs
            /\ IF ~p.can_show_more
               THEN wret' = WalkOk(all_albums') /\ wpc' = "done"
               ELSE UNCHANGED <<wret, wpc>>
    /\ UNCHANGED <<offset, config, albums, album, rootDir, dirs, sidecars, written, pc,
                   idx, fmtIdx, album_dir, document, download_links, resp, cdn_resp,
                   file_data, fmtResult, outcome, itemlog, fmtlog, attempted, trace,
                   prior, call>>

\* (variant) a failed page ends the walk with the pages collected so far
FetchPage_Partial ==
    /\ wpc = "page"
    /\ wreqs' = Append(wreqs, offset)
    /\ \/ /\ wpc' = "done"
          /\ wret' = WalkOk(all_albums)
          /\ UNCHANGED <<offset, all_albums, wpages>>
       \/ \E p \in {q \in PageAnswers : q.can_show_more => Len(wreqs) + 1 < MaxPages} :
            /\ wpages' = Append(wpages, p)
            /\ all_albums' = all_albums \o p.discs
            /\ IF ~p.can_show_more
               THEN /\ wret' = WalkOk(all_albums')
                    /\ wpc' = "done"
                    /\ UNCHANGED offset
               ELSE /\ offset' = offset + LIMIT
                    /\ UNCHANGED <<wret, wpc>>
    /\ UNCHANGED <<config, albums, album, rootDir, dirs, sidecars, written, pc, idx,
                   fmtIdx, album_dir, document, download_links, resp, cdn_resp,
                   file_data, fmtResult, outcome, itemlog, fmtlog, attempted, trace,
                   prior, call>>

\* One turn of the loop: the request for [offset, offset + LIMIT), its
\* decoding, the extension of all_albums and the test of can_show_more.
\* (offset is a u32; it cannot wrap within MaxPages pages.)
FetchPage ==
    /\ wpc = "page"
    /\ wreqs' = Append(wreqs, offset)
    /\ \/ /\ wpc' = "done"
          /\ wret' = WalkErr
          /\ UNCHANGED <<offset, all_albums, wpages>>
       \/ \E p \in {q \in PageAnswers : q.can_show_more => Len(wreqs) + 1 < MaxPages} :
            /\ wpages' = Append(wpages, p)
            /\ all_albums' = all_albums \o p.discs
            /\ IF ~p.can_show_more
               THEN /\ wret' = WalkOk(all_albums')
                    /\ wpc' = "done"
                    /\ UNCHANGED offset
               ELSE /\ offset' = offset + LIMIT
                    /\ UNCHANGED <<wret, wpc>>
    /\ UNCHANGED <<config, albums, album, rootDir, dirs, sidecars, written, pc, idx,
                   fmtIdx, album_dir, document, download_links, resp, cdn_resp,
                   file_data, fmtResult, outcome, itemlog, fmtlog, attempted, trace,
                   prior, call>>

NextWalk == GetUserToken \/ FetchPage

SpecWalk == InitWalk /\ [][NextWalk]_vars

\* --------------------------------------- the pure functions, on their own

\* Neither the walk nor the pipeline runs while one function is observed.
PipelineIdle == SyncIdle /\ WalkIdle

\* ---- detect_archive_format

\* The buffers: the four payload heads, padded with zero bytes, with at most
\* one byte changed, cut at every length up to MaxBufLen.
BufferHeads == {ZipBody, Rar4Body, Rar5Magic, HtmlBody}

Padded(b) == [i \in 1..MaxBufLen |-> IF i <= Len(b) THEN b[i] ELSE 0]

OtherBytes == {0, 1, 75}

Buffers ==
    LET full == {Padded(h) : h \in BufferHeads}
        changed == {[b EXCEPT ![p] = v] : b \in full, p \in 1..MaxBufLen, v \in OtherBytes}
    IN  {SubSeq(b, 1, n) : b \in full \cup changed, n \in 0..MaxBufLen}

InitDetect ==
    /\ call \in {Calling("detect_archive_format", b) : b \in Buffers}
    /\ PipelineIdle

CallDetect ==
    /\ call.fn = "detect_archive_format" /\ ~call.done
    /\ call' = [call EXCEPT !.ret = detect_archive_format(call.arg), !.done = TRUE]
    /\ UNCHANGED <<config, albums, album, rootDir, dirs, sidecars, written, pc, idx,
                   fmtIdx, album_dir, document, download_links, resp, cdn_resp,
                   file_data, fmtResult, outcome, itemlog, fmtlog, attempted, trace,
                   prior, wpc, offset, all_albums, wreqs, wpages, wret>>

NextDetect == CallDetect

SpecDetect == InitDetect /\ [][NextDetect]_vars

\* ---- generate_directory_name

NameTemplates ==
    { DefaultTemplate, <<"{", "a", "l", "b", "u", "m", "}", "{", "a", "l", "b", "u", "m", "}">>, <<"{", "a", "u", "t", "h", "o", "r", "s", "}", "-", "{", "y", "e", "a", "r", "}", "-", "{", "d", "a", "t", "e", "}">>, <<"{", "f", "o", "o", "}", "{", "a", "l", "b", "u", "m", "}">>, <<"{", "l", "a", "b", "e", "l", "}", " ", "{", "a", "l", "b", "u", "m">> }

NameAlbums ==
    { [ NoAlbum EXCEPT !.id = 1, !.title = t, !.label = l, !.authors = a,
                       !.year = y, !.release_date = d ] :
        t \in { <<"A", ":", "1">>, <<"{", "l", "a", "b", "e", "l", "}">>, <<" ", "a", " ">> },
        l \in { <<"L">>, <<"{", "a", "l", "b", "u", "m", "}">>, <<"a", "/", "b">> },
        a \in { None, Some(<<"X">>), Some(<<"{", "y", "e", "a", "r", "}">>) },
        y \in { None, Some(<<"2", "0", "2", "5">>), Some(<<"2", "0", "/", "2", "5">>), Some(<<"{", "d", "a", "t", "e", "}">>) },
        d \in { None, Some(<<"2", "0", "2", "5", "Y", "6", "M", "1", "0", "D">>), Some(<<"2", "0", "2", "5", "/", "0", "6", "/", "1", "0">>) } }

InitDirName ==
    /\ call \in {Calling("generate_directory_name", [album |-> a, template |-> t]) :
                   a \in NameAlbums, t \in NameTemplates}
    /\ PipelineIdle

CallDirName ==
    /\ call.fn = "generate_directory_name" /\ ~call.done
    /\ call' = [call EXCEPT
                  !.ret = generate_directory_name(call.arg.album, call.arg.template),
                  !.done = TRUE]
    /\ UNCHANGED <<config, albums, album, rootDir, dirs, sidecars, written, pc, idx,
                   fmtIdx, album_dir, document, download_links, resp, cdn_resp,
                   file_data, fmtResult, outcome, itemlog, fmtlog, attempted, trace,
                   prior, wpc, offset, all_albums, wreqs, wpages, wret>>

NextDirName == CallDirName

SpecDirName == InitDirName /\ [][NextDirName]_vars

\* ---- get_album_directory in two runs over the same catalog entry

\* the days on which the program is run
RunDates == { current_date, <<"2", "0", "2", "7", "-", "0", "1", "-", "0", "1">> }

\* what get_album_details meets in a run: a failed fetch, or a page
RunPages == {None} \cup {Some(page) : page \in DetailPages}

\* the directory name download_album computes for a listing entry in one run:
\* the reset of the loop head, the enrichment, then the template
RunDirectory(entry, template, page, today) ==
    LET listed == ResetOptional(entry)
        enriched == IF page = None THEN listed ELSE ApplyDetails(listed, page[1])
    IN  generate_directory_name_on(enriched, template, today)

InitTwoRuns ==
    /\ call \in {Calling("get_album_directory",
                         [entry |-> CatalogAlbum(i), template |-> t,
                          runs |-> <<[page |-> p1, today |-> d1], [page |-> p2, today |-> d2]>>]) :
                   i \in 1..MaxAlbums, t \in NameTemplates,
                   p1 \in RunPages, p2 \in RunPages, d1 \in RunDates, d2 \in RunDates}
    /\ PipelineIdle

\* one more run reaches the directory check of the entry
CallNextRun ==
    /\ call.fn = "get_album_directory" /\ ~call.done
    /\ LET run == call.arg.runs[Len(call.ret) + 1]
       IN  call' = [call EXCEPT
                      !.ret = Append(@, RunDirectory(call.arg.entry, call.arg.template,
                                                     run.page, run.today)),
                      !.done = Len(call.ret) + 1 = Len(call.arg.runs)]
    /\ UNCHANGED <<config, albums, album, rootDir, dirs, sidecars, written, pc, idx,
                   fmtIdx, album_dir, document, download_links, resp, cdn_resp,
                   file_data, fmtResult, outcome, itemlog, fmtlog, attempted, trace,
                   prior, wpc, offset, all_albums, wreqs, wpages, wret>>

NextTwoRuns == CallNextRun

SpecTwoRuns == InitTwoRuns /\ [][NextTwoRuns]_vars

\* ---- convert_chinese_date_to_iso

\* The strings: an optional prefix, then year, month and day parts, each with
\* its mark or another character after it, then an optional suffix.
DateStrings ==
    { pre \o y \o ym \o m \o mm \o d \o dm \o suf :
        pre \in { <<>>, <<"x", " ">> },
        y \in { <<"2", "0", "2", "5">>, <<"2", "0", "2">>, <<"1", "2", "0", "2", "5">> },
        ym \in { <<"Y">>, <<"-">> },
        m \in { <<"6">>, <<"0", "6">>, <<"1", "2">>, <<"1", "2", "3">>, <<>> },
        mm \in { <<"M">>, <<"-">> },
        d \in { <<"1">>, <<"1", "0">>, <<"0", "7">>, <<>> },
        dm \in { <<"D">>, <<>> },
        suf \in { <<>>, <<" ", "x">> } }

InitDate ==
    /\ call \in {Calling("convert_chinese_date_to_iso", s) : s \in DateStrings}
    /\ PipelineIdle

CallDate ==
    /\ call.fn = "convert_chinese_date_to_iso" /\ ~call.done
    /\ call' = [call EXCEPT !.ret = convert_chinese_date_to_iso(call.arg), !.done = TRUE]
    /\ UNCHANGED <<config, albums, album, rootDir, dirs, sidecars, written, pc, idx,
                   fmtIdx, album_dir, document, download_links, resp, cdn_resp,
                   file_data, fmtResult, outcome, itemlog, fmtlog, attempted, trace,
                   prior, wpc, offset, all_albums, wreqs, wpages, wret>>

NextDate == CallDate

SpecDate == InitDate /\ [][NextDate]_vars

\* ---- extract_zip_file, extract_rar_file

InitExtract ==
    /\ call \in {Calling(fn, [archive |-> a, flatten |-> fl, format |-> fmt, fault |-> f,
                              removed |-> rm, title |-> t]) :
                   fn \in {"extract_zip_file", "extract_rar_file", "save_unknown"},
                   a \in AnyArchives, fl \in BOOLEAN, fmt \in FormatNames,
                   f \in UNION {RarFaults(b) : b \in AnyArchives}, rm \in BOOLEAN,
                   t \in AnyTitles}
    /\ call.arg.fault \in (CASE call.fn = "extract_zip_file" -> ZipFaults(call.arg.archive)
                             [] call.fn = "extract_rar_file" -> RarFaults(call.arg.archive)
                             [] OTHER -> {NoFault})
    /\ call.fn # "extract_rar_file" => call.arg.removed
    /\ call.fn = "save_unknown" => call.arg.archive = <<>> /\ ~call.arg.flatten
    /\ call.fn # "save_unknown" => call.arg.title = CatalogAlbum(1).title
    /\ SyncIdle
    /\ WalkIdle

CallExtractZip ==
    /\ call.fn = "extract_zip_file" /\ ~call.done
    /\ call' = [call EXCEPT
                  !.ret = extract_zip_file(call.arg.archive, call.arg.flatten, call.arg.format,
                                           call.arg.fault),
                  !.done = TRUE]
    /\ UNCHANGED <<config, albums, album, rootDir, dirs, sidecars, written, pc, idx,
                   fmtIdx, album_dir, document, download_links, resp, cdn_resp,
                   file_data, fmtResult, outcome, itemlog, fmtlog, attempted, trace,
                   prior, wpc, offset, all_albums, wreqs, wpages, wret>>

CallExtractRar ==
    /\ call.fn = "extract_rar_file" /\ ~call.done
    /\ call' = [call EXCEPT
                  !.ret = extract_rar_file(call.arg.archive, 1, call.arg.flatten, call.arg.format,
                                           call.arg.fault, call.arg.removed),
                  !.done = TRUE]
    /\ UNCHANGED <<config, albums, album, rootDir, dirs, sidecars, written, pc, idx,
                   fmtIdx, album_dir, document, download_links, resp, cdn_resp,
                   file_data, fmtResult, outcome, itemlog, fmtlog, attempted, trace,
                   prior, wpc, offset, all_albums, wreqs, wpages, wret>>

\* the ArchiveFormat::Unknown arm of download_format
CallSaveUnknown ==
    /\ call.fn = "save_unknown" /\ ~call.done
    /\ call' = [call EXCEPT
                  !.ret = Extracted("ok", {file_path(call.arg.title, call.arg.format)}, "none"),
                  !.done = TRUE]
    /\ UNCHANGED <<config, albums, album, rootDir, dirs, sidecars, written, pc, idx,
                   fmtIdx, album_dir, document, download_links, resp, cdn_resp,
                   file_data, fmtResult, outcome, itemlog, fmtlog, attempted, trace,
                   prior, wpc, offset, all_albums, wreqs, wpages, wret>>

NextExtract == CallExtractZip \/ CallExtractRar \/ CallSaveUnknown

SpecExtract == InitExtract /\ [][NextExtract]_vars

\* ------------------------------------------------------------- properties

NetCount(log) == Cardinality({i \in DOMAIN log : log[i].op \in NetOps})

OpCount(log, op) == Cardinality({i \in DOMAIN log : log[i].op = op})

FormatPcs == {"links", "links_parsed", "fetch", "file_resp", "cdn", "classify", "fmt_ret"}

\* C1: an item that is skipped because skip_existing is set and its target
\* directory exists has had no network request issued for it.
C1_NoRequestWhenSkipped ==
    outcome = "skipped" => NetCount(itemlog) = 0 /\ NetCount(fmtlog) = 0

\* C2: once an item is in the format loop, download_format is called for the
\* configured formats one by one in the configured order, each exactly once;
\* no format's failure ends the loop early or makes download_album fail.
C2_FormatLoop ==
    /\ Len(attempted) <= Len(config.formats)
    /\ attempted = SubSeq(config.formats, 1, Len(attempted))
    /\ pc \in FormatPcs => Len(attempted) = fmtIdx
    /\ pc = "fmtloop" => Len(attempted) = fmtIdx - 1
    /\ attempted # <<>> => outcome \in {"running", "done"}
    /\ (outcome = "done" /\ ~config.metadata_only) => attempted = config.formats

\* a format has failed and download_format is running for the next one
C2_Witness ==
    pc = "links" /\ fmtIdx = 2 /\ fmtResult = "err" /\ attempted = config.formats

IsStart(e) == e.ev = "start"

StartIds == LET st == SelectSeq(trace, IsStart) IN [k \in DOMAIN st |-> st[k].id]

InListOrder == StartIds = [k \in DOMAIN StartIds |-> albums[k].id]

\* C3 as stated: every item is processed exactly once in list order and the
\* run ends with success, whatever fails.
C3_AlwaysSuccess ==
    /\ pc # "run_err"
    /\ InListOrder
    /\ pc = "run_ok" => Len(StartIds) = Len(albums)

\* C3 as amended: the run ends with an error only when the output root
\* cannot be created, and then before any item; otherwise every item is
\* processed exactly once in list order, also after items that failed, and
\* the run ends with success.
C3_SuccessOnceRootExists ==
    /\ pc = "run_err" => trace = <<>> /\ ~rootDir
    /\ InListOrder
    /\ pc = "run_ok" => Len(StartIds) = Len(albums)
    /\ trace # <<>> => rootDir

\* an item failed, a later item was processed and the run ended with success
C3_Witness ==
    /\ pc = "run_ok"
    /\ \E k \in 1..(Len(trace) - 1) : trace[k].ev = "end_err" /\ trace[k + 1].ev = "start"

RECURSIVE ConcatDiscs(_)
ConcatDiscs(pages) ==
    IF pages = <<>> THEN <<>>
    ELSE ConcatDiscs(SubSeq(pages, 1, Len(pages) - 1)) \o pages[Len(pages)].discs

\* C4: the page requests have the offsets 0, 20, 40, ... in this order; the
\* walk stops right after the first page whose canshowmore is false, not
\* before; what it returns is the concatenation of the pages' items.
C4_Walk ==
    /\ wreqs = [k \in DOMAIN wreqs |-> (k - 1) * LIMIT]
    /\ \A k \in DOMAIN wpages :
         ~wpages[k].can_show_more => k = Len(wpages) /\ wpc = "done" /\ wret.ok
    /\ (wpc = "done" /\ wret.ok) =>
         /\ wpages # <<>>
         /\ ~wpages[Len(wpages)].can_show_more
         /\ Len(wreqs) = Len(wpages)
         /\ wret.items = ConcatDiscs(wpages)

\* a walk of three pages ended, with an item the server listed twice
C4_Witness ==
    /\ wpc = "done" /\ wret.ok /\ Len(wpages) = 3
    /\ \E i, j \in DOMAIN wret.items : i < j /\ wret.items[i] = wret.items[j]

\* C5: a failure of the token scrape, of a page request or of its decoding
\* ends the walk with an error that carries no item, and no request follows.
C5_WalkAborts ==
    /\ Len(wreqs) <= Len(wpages) + 1
    /\ Len(wreqs) = Len(wpages) + 1 => wpc = "done" /\ ~wret.ok
    /\ (wpc = "done" /\ wpages # <<>> /\ wpages[Len(wpages)].can_show_more) => ~wret.ok
    /\ (wpc = "done" /\ wreqs = <<>>) => ~wret.ok
    /\ (wpc = "done" /\ ~wret.ok) => wret.items = <<>>

\* the second page failed after a first page that had items
C5_Witness ==
    wpc = "done" /\ ~wret.ok /\ Len(wreqs) = 2 /\ all_albums # <<>>

Matches(a, format) ==
    IF format = "gift" THEN a.path = "download_gift" ELSE a.tp = format

HasAnchor(doc, format) == \E i \in DOMAIN doc : Matches(doc[i], format)

FirstAnchor(doc, format) ==
    doc[CHOOSE i \in DOMAIN doc :
          Matches(doc[i], format) /\ \A j \in 1..(i - 1) : ~Matches(doc[j], format)]

\* C6, the resolver on a fetched page: "gift" without gift anchor gives Ok
\* and no link; another format without its anchor gives Err; an anchor with
\* a key gives exactly one link, under the requested format, from the gift
\* template for "gift" and from the other template otherwise.
C6_Resolver ==
    pc = "links_parsed" =>
      LET r == get_download_links(document, Cur.id, CurFormat)
      IN  /\ (CurFormat = "gift" /\ ~HasAnchor(document, "gift")) =>
                r.ok /\ r.links = {}
          /\ (CurFormat # "gift" /\ ~HasAnchor(document, CurFormat)) => ~r.ok
          /\ (HasAnchor(document, CurFormat)
              /\ FirstAnchor(document, CurFormat).key # "") =>
                /\ r.ok
                /\ Cardinality(r.links) = 1
                /\ \A e \in r.links :
                     /\ e[1] = CurFormat
                     /\ e[2].d = Cur.id
                     /\ e[2].k = FirstAnchor(document, CurFormat).key
                     /\ e[2].tmpl = IF CurFormat = "gift" THEN "download_gift"
                                    ELSE "download"
                     /\ e[2].tp = IF CurFormat = "gift" THEN "" ELSE CurFormat

\* C6, the orchestrator on the resolver's result: after the empty result
\* download_format returns Ok at once, with no further request and nothing
\* written; after the error it returns Err; after the one link it goes on to
\* fetch the URL kept under the requested format.
C6_Orchestrator ==
    pc = "links_parsed" =>
      /\ (CurFormat = "gift" /\ ~HasAnchor(document, "gift")) =>
           /\ pc' = "fmt_ret" /\ fmtResult' = "ok"
           /\ fmtlog' = fmtlog /\ written' = written
      /\ (CurFormat # "gift" /\ ~HasAnchor(document, CurFormat)) =>
           /\ pc' = "fmt_ret" /\ fmtResult' = "err"
           /\ fmtlog' = fmtlog /\ written' = written
      /\ (HasAnchor(document, CurFormat)
          /\ FirstAnchor(document, CurFormat).key # "") =>
           /\ pc' = "fetch"
           /\ Cardinality(download_links'.links) = 1
           /\ \A e \in download_links'.links :
                e[1] = CurFormat /\ e[2].k = FirstAnchor(document, CurFormat).key

\* C6: both parts.
C6_Resolution == []C6_Resolver /\ [][C6_Orchestrator]_vars

\* "gift" was resolved on a page without gift anchor and the format ended Ok
C6_Witness ==
    /\ pc = "fmt_ret" /\ CurFormat = "gift" /\ fmtResult = "ok"
    /\ OpCount(fmtlog, "links") = 1 /\ OpCount(fmtlog, "file") = 0

C8_ErrorOnBadStatus ==
    (resp # NoResp /\ ~is_success(resp.status)
     /\ ~(is_redirection(resp.status) /\ resp.location # "none")) =>
      pc # "classify" /\ file_data = <<>> /\ written = {}

SidecarNames == {s.name : s \in sidecars}

MetaLog ==
    <<Op("details", "", TRUE), Op("mkdir", "", FALSE)>>
    \o (IF config.generate_readme THEN <<Op("readme", "", FALSE)>> ELSE <<>>)
    \o (IF config.generate_nfo THEN <<Op("nfo", "", FALSE)>> ELSE <<>>)

\* C9 as stated: in metadata-only mode every item that is not skipped has its
\* directory created and its enabled sidecars generated, then finishes, with
\* no key resolution, content fetch or extraction.
C9_MetadataOnly ==
    (config.metadata_only /\ outcome \in {"done", "failed"}) =>
      /\ album_dir \in dirs
      /\ config.generate_readme => ReadmeName \in SidecarNames
      /\ config.generate_nfo => NfoName \in SidecarNames
      /\ attempted = <<>> /\ fmtlog = <<>> /\ written = {}

\* C9 as amended: in metadata-only mode no format is ever attempted; an item
\* that is not skipped either fails at the creation of its directory, before
\* any sidecar, or has the directory created and the generation of every
\* enabled sidecar called (a sidecar whose write fails is only logged) and
\* then finishes with success.
C9_MetadataOnlyAttempts ==
    config.metadata_only =>
      /\ attempted = <<>> /\ fmtlog = <<>> /\ written = {}
      /\ pc \notin FormatPcs \cup {"fmtloop"}
      /\ outcome = "done" =>
           /\ album_dir \in dirs
           /\ itemlog = MetaLog
           /\ SidecarNames \subseteq {ReadmeName, NfoName}
           /\ ReadmeName \in SidecarNames => config.generate_readme
           /\ NfoName \in SidecarNames => config.generate_nfo
      /\ outcome = "failed" =>
           /\ itemlog = <<Op("details", "", TRUE), Op("mkdir", "", FALSE)>>
           /\ sidecars = {}

\* a metadata-only item finished with both sidecars written
C9_Witness ==
    /\ config.metadata_only /\ outcome = "done" /\ pc = "item_ok"
    /\ SidecarNames = {ReadmeName, NfoName}

\* C10: with single_threaded a 2-second sleep precedes the start of every
\* item but the first, whatever the outcome of the item before it; without
\* it no sleep is ever made.
C10_DelayBetweenItems ==
    /\ config.single_threaded =>
         \A k \in 2..Len(trace) :
           trace[k].ev = "start" =>
             trace[k - 1].ev = "sleep" /\ trace[k - 1].secs = PacingSecs
    /\ ~config.single_threaded => \A k \in DOMAIN trace : trace[k].ev # "sleep"

\* C11: every content fetch follows at once the key resolution of the same
\* item and format; the resolved URL is that item's and that format's, it is
\* fetched at most once and is gone when download_format returns.
C11_ResolveThenFetch ==
    /\ \A i \in DOMAIN fmtlog :
         /\ fmtlog[i].op \in NetOps => fmtlog[i].fmt = CurFormat
         /\ fmtlog[i].op = "file" =>
              i > 1 /\ fmtlog[i - 1].op = "links" /\ fmtlog[i - 1].fmt = fmtlog[i].fmt
    /\ OpCount(fmtlog, "file") <= 1
    /\ OpCount(fmtlog, "links") <= 1
    /\ download_links # NoLinks =>
         /\ pc \in {"fetch", "file_resp", "cdn", "classify"}
         /\ \A e \in download_links.links :
              /\ e[1] = CurFormat
              /\ e[2].d = Cur.id
              /\ e[2].tp = IF CurFormat = "gift" THEN "" ELSE CurFormat
    /\ pc \in {"file_resp", "cdn", "classify"} => download_links # NoLinks

\* the second format of the second item is fetched after its own resolution
C11_Witness ==
    /\ pc = "file_resp" /\ idx = 2 /\ fmtIdx = 2
    /\ fmtlog = <<Op("links", CurFormat, TRUE), Op("file", CurFormat, TRUE)>>

\* C13: a buffer shorter than 4 bytes is Unknown; else one starting with "PK"
\* is Zip; else one whose first 8 bytes are the RAR5 magic or whose first 7
\* bytes are the RAR4 magic is Rar; every other one is Unknown; the class of
\* a buffer of 8 bytes or more depends on its first 8 bytes only.
C13_Classification ==
    (call.fn = "detect_archive_format" /\ call.done) =>
      LET b == call.arg
          starts(m) == Len(b) >= Len(m) /\ \A i \in 1..Len(m) : b[i] = m[i]
          class == IF Len(b) < 4 THEN "Unknown"
                   ELSE IF starts(<<80, 75>>) THEN "Zip"
                   ELSE IF starts(<<82, 97, 114, 33, 26, 7, 1, 0>>)
                           \/ starts(<<82, 97, 114, 33, 26, 7, 0>>) THEN "Rar"
                   ELSE "Unknown"
      IN  /\ call.ret = class
          /\ Len(b) >= 8 =>
               \A t \in {<<>>, <<0>>, <<80, 75>>, <<7, 1, 0>>} :
                 detect_archive_format(SubSeq(b, 1, 8) \o t) = call.ret

\* a buffer of exactly the 7 bytes of the RAR4 magic is classified Rar
C13_Witness ==
    /\ call.fn = "detect_archive_format" /\ call.done
    /\ call.arg = <<82, 97, 114, 33, 26, 7, 0>> /\ call.ret = "Rar"

PlaceholderNames ==
    { <<"{", "a", "l", "b", "u", "m", "}">>, <<"{", "l", "a", "b", "e", "l", "}">>, <<"{", "a", "u", "t", "h", "o", "r", "s", "}">>, <<"{", "y", "e", "a", "r", "}">>, <<"{", "d", "a", "t", "e", "}">> }

\* the value generate_directory_name inserts for a placeholder
InsertedFor(alb, name) ==
    CASE name = <<"{", "a", "l", "b", "u", "m", "}">> -> sanitize_filename(alb.title)
      [] name = <<"{", "l", "a", "b", "e", "l", "}">> -> sanitize_filename(alb.label)
      [] name = <<"{", "a", "u", "t", "h", "o", "r", "s", "}">> ->
           sanitize_filename(IF alb.authors # None THEN alb.authors[1] ELSE alb.label)
      [] name = <<"{", "y", "e", "a", "r", "}">> -> IF alb.year # None THEN alb.year[1] ELSE current_year
      [] name = <<"{", "d", "a", "t", "e", "}">> ->
           IF alb.release_date # None
           THEN convert_chinese_date_to_iso(alb.release_date[1]) ELSE current_date

\* one pass over the template: each placeholder gives way to its value, the
\* scan goes on after the placeholder, all other text is copied
RECURSIVE OnePass(_, _)
OnePass(t, alb) ==
    IF t = <<>> THEN <<>>
    ELSE LET here == {n \in PlaceholderNames :
                        Len(t) >= Len(n) /\ SubSeq(t, 1, Len(n)) = n}
         IN  IF here = {} THEN <<t[1]>> \o OnePass(Tail(t), alb)
             ELSE LET n == CHOOSE x \in here : TRUE
                  IN  InsertedFor(alb, n) \o OnePass(SubSeq(t, Len(n) + 1, Len(t)), alb)

\* C14: every placeholder of the template is replaced exactly once by the
\* item's value, inserted text is not expanded again, other text (unknown
\* placeholders too) stays; substituting again changes nothing.
C14_OncePerPlaceholder ==
    (call.fn = "generate_directory_name" /\ call.done) =>
      /\ call.ret = OnePass(call.arg.template, call.arg.album)
      /\ generate_directory_name(call.arg.album, call.ret) = call.ret

\* C15: the generated directory name has a reserved character only where the
\* template text has one: with a template free of them the name is free of
\* them, whatever the item's fields hold.
C15_NoReservedInserted ==
    (call.fn = "generate_directory_name" /\ call.done
     /\ \A i \in DOMAIN call.arg.template : call.arg.template[i] \notin Reserved) =>
      \A i \in DOMAIN call.ret : call.ret[i] \notin Reserved

AllDigits(s, a, b) == \A i \in a..b : i <= Len(s) /\ s[i] \in Digits

\* s is <4 digits>Y<1-2 digits>M<1-2 digits>D and nothing else, the month
\* mark at pm
ExactDateAt(s, pm) ==
    /\ Len(s) \in {pm + 2, pm + 3}
    /\ AllDigits(s, 1, 4) /\ s[5] = "Y"
    /\ AllDigits(s, 6, pm - 1) /\ s[pm] = "M"
    /\ AllDigits(s, pm + 1, Len(s) - 1) /\ s[Len(s)] = "D"

\* such a date stands somewhere in s
ContainsDate(s) ==
    \E p \in 1..Len(s) : \E ml \in {1, 2} : \E dl \in {1, 2} :
      /\ p + 6 + ml + dl <= Len(s)
      /\ AllDigits(s, p, p + 3) /\ s[p + 4] = "Y"
      /\ AllDigits(s, p + 5, p + 4 + ml) /\ s[p + 5 + ml] = "M"
      /\ AllDigits(s, p + 6 + ml, p + 5 + ml + dl) /\ s[p + 6 + ml + dl] = "D"

ZeroPadded(ds) == IF Len(ds) = 1 THEN <<"0">> \o ds ELSE ds

RECURSIVE BaseName(_)
BaseName(name) ==
    IF \E i \in DOMAIN name : name[i] = "/"
    THEN BaseName(Tail(name)) ELSE name

ExtractCall == call.fn \in {"extract_zip_file", "extract_rar_file"} /\ call.done

\* the files an extraction call has put into the item directory
Placed == call.ret.files \ {TempRarName(1)}

\* C12: after an extraction without fault every member that is not a
\* directory stands at <format>/<member name> when flatten is off, and
\* directly in the item directory, its sub-path dropped, when flatten is on.
C12_Placement ==
    (ExtractCall /\ call.arg.fault = NoFault) =>
      LET files == {e.name : e \in {call.arg.archive[i] : i \in DOMAIN call.arg.archive}
                                   \cap {m \in Members : ~m.is_dir}}
      IN  IF call.arg.flatten
          THEN /\ Placed = {BaseName(n) : n \in files}
               /\ \A p \in Placed : \A i \in DOMAIN p : p[i] # "/"
          ELSE Placed = {FormatChars(call.arg.format) \o <<"/">> \o n : n \in files}

\* C20: when the archive cannot be opened, or the header or the data of a
\* member cannot be read, the extraction ends with an error.
C20_CorruptIsError ==
    (ExtractCall /\ call.ret.hit \in {"open", "header", "data"}) => call.ret.res = "err"

\* Every detail page of the model carries a release date and no listing entry
\* does, so an item past the details step without one is an item whose
\* enrichment failed.
DetailsFailed == album # NoAlbum /\ pc # "details" /\ album.release_date = None

\* C17: an item whose enrichment failed has, in every field, the value its
\* listing entry has; in particular its id is the entry's id.
C17_FieldsKept == DetailsFailed => album = albums[idx]

\* the sidecars of an item whose optional fields are all absent
PlaceholderReadme ==
    Sidecar(ReadmeName,
            [ album |-> Cur.title, label |-> Cur.label, id |-> Cur.id, cover |-> Cur.cover,
              release_date |-> UnknownZh, description |-> NoDescriptionZh, tags |-> <<>>,
              authors |-> Cur.label, year |-> UnknownZh ])

PlaceholderNfo ==
    Sidecar(NfoName,
            [ title |-> Cur.title, artist |-> Cur.label, genre |-> MusicEn,
              year |-> UnknownEn, releasedate |-> UnknownEn, label |-> Cur.label,
              id |-> Cur.id, plot |-> <<>>, tags |-> <<>> ])

PastSidecars == pc \in {"metaonly", "fmtloop"} \cup FormatPcs \/ outcome = "done"

\* C19 as stated: an item whose metadata fetch failed and that is not skipped
\* ends with its directory created, every enabled sidecar written with the
\* placeholder values, and every configured format attempted.
C19_PlaceholdersAndLoop ==
    (DetailsFailed /\ outcome \in {"done", "failed"}) =>
      /\ album_dir \in dirs
      /\ config.generate_readme => PlaceholderReadme \in sidecars
      /\ config.generate_nfo => PlaceholderNfo \in sidecars
      /\ attempted = config.formats

\* C19 as amended: a failed metadata fetch never fails the item. The item
\* goes through the directory check; when it is not skipped the creation of
\* its directory is attempted, and only a failure of that creation fails the
\* item; once the directory exists the generation of every enabled sidecar is
\* called, and a sidecar that is written carries the placeholder values; the
\* format loop then runs over every configured format unless the run is
\* metadata-only.
C19_NonFatal ==
    DetailsFailed =>
      /\ pc # "dircheck" => album_dir = get_album_directory(Cur)
      /\ outcome = "failed" =>
           /\ itemlog = <<Op("details", "", TRUE), Op("mkdir", "", FALSE)>>
           /\ album_dir \notin dirs
      /\ outcome = "skipped" => itemlog = <<Op("details", "", TRUE)>>
      /\ pc \in {"readme", "nfo"} \/ PastSidecars => album_dir \in dirs
      /\ sidecars \subseteq {PlaceholderReadme, PlaceholderNfo}
      /\ PastSidecars => itemlog = MetaLog
      /\ (outcome = "done" /\ ~config.metadata_only) => attempted = config.formats

\* an item whose metadata fetch failed has finished with both sidecars
\* written and both formats attempted
C19_Witness ==
    /\ DetailsFailed /\ outcome = "done" /\ pc = "item_ok"
    /\ sidecars = {PlaceholderReadme, PlaceholderNfo}
    /\ Len(attempted) = 2 /\ attempted = config.formats

\* C18 (state part): an item that ended as skipped had skip_existing on and
\* its directory on disk; none of its formats was attempted, no directory was
\* created and nothing was written for it.
C18_SkippedIsInert ==
    outcome = "skipped" =>
      /\ config.skip_existing /\ album_dir \in dirs
      /\ itemlog = <<Op("details", "", TRUE)>>
      /\ attempted = <<>> /\ fmtlog = <<>>
      /\ written = {} /\ sidecars = {}

\* C18 (step part): at the directory check, with skip_existing on, an item
\* whose directory exists ends as skipped, whatever made the directory.
C18_ExistingIsSkipped ==
    (pc = "dircheck" /\ config.skip_existing /\ get_album_directory(Cur) \in dirs) =>
      outcome' = "skipped" /\ pc' = "item_ok" /\ dirs' = dirs

\* C18: the directories of the output root are all left by earlier runs or
\* made by this one; with skip_existing on, an item whose directory exists is
\* ended as skipped, with no format attempted and nothing written, also when
\* the earlier run failed its formats or stopped in the middle of an
\* extraction.
C18_DirectoryMeansComplete == []C18_SkippedIsInert /\ [][C18_ExistingIsSkipped]_vars

\* the earlier run stopped while it extracted an archive of this item, and
\* this run has ended the item as skipped
C18_Witness ==
    /\ prior # <<>> /\ prior[1].how = "crashed" /\ prior[1].item = Cur.id
    /\ outcome = "skipped" /\ pc = "item_ok"
    /\ attempted = <<>> /\ written = {}

RarCall == call.fn = "extract_rar_file" /\ call.done

\* C21: when extract_rar_file has ended, with success or with an error, the
\* staging file temp_<id>.rar is still in the item directory only if its
\* deletion failed, and a failed deletion alone does not make the call fail.
C21_TempFileRemoved ==
    RarCall =>
      /\ call.arg.removed => TempRarName(1) \notin call.ret.files
      /\ (call.ret.hit = "none" /\ ~call.arg.removed) =>
           call.ret.res = "ok" /\ TempRarName(1) \in call.ret.files

\* the components of a path, split at "/"
RECURSIVE Components(_)
Components(p) ==
    IF p = <<>> THEN << <<>> >>
    ELSE LET rest == Components(Tail(p))
         IN  IF Head(p) = "/" THEN << <<>> >> \o rest
             ELSE << <<Head(p)>> \o rest[1] >> \o Tail(rest)

\* walking the components from the item directory never leaves it
RECURSIVE StaysInside(_, _)
StaysInside(comps, depth) ==
    IF comps = <<>> THEN TRUE
    ELSE IF comps[1] = <<".", ".">>
         THEN depth > 0 /\ StaysInside(Tail(comps), depth - 1)
    ELSE IF comps[1] \in {<<>>, <<".">>} THEN StaysInside(Tail(comps), depth)
    ELSE StaysInside(Tail(comps), depth + 1)

\* a path, written relative to the item directory, that lies inside it
InsideItemDir(p) == p # <<>> /\ p[1] # "/" /\ StaysInside(Components(p), 0)

\* C22: every file an item's processing writes lies inside the item
\* directory: the sidecars, the Rar staging file, and whatever an extraction
\* or the saving of an unknown payload has written, for every stored member
\* name and every title.
C22_WritesStayInside ==
    /\ InsideItemDir(ReadmeName) /\ InsideItemDir(NfoName) /\ InsideItemDir(TempRarName(1))
    /\ call.done => \A p \in call.ret.files : InsideItemDir(p)

\* C23: two runs over the same configuration and the same catalog entry
\* compute the same directory name, whether or not the metadata fetch
\* succeeds in each and whatever the day of each run.
C23_SameDirectoryEveryRun ==
    (call.fn = "get_album_directory" /\ call.done) => call.ret[1] = call.ret[2]

====
